---- MODULE Spec2Model ----
(***************************************************************************)
(* VisitsInIntervalMetric (mafContrib/VisitsInIntervalMetric.py).          *)
(*                                                                         *)
(* A caller constructs the metric from four configuration scalars and then *)
(* calls run on an observation batch.  A batch is either a numpy           *)
(* structured array, as the slicer supplies, or a dict holding the time    *)
(* column, as test() builds; in both cases the model keeps the sequence of *)
(* its timestamps (the timeCol column) and, apart, the kind of object.     *)
(* Timestamps, lengths and gaps are integers.  Positions in tw (i, pairStart, the elements of  *)
(* wdt) are 0-based as in the source; TLA+ sequences are 1-based, so        *)
(* position p of tw is tw[p + 1].                                           *)
(***************************************************************************)
EXTENDS Integers, Sequences, FiniteSets

\* ---------------------------------------------------------------- bounds
MaxLen == 3        \* longest enumerated batch
MaxT == 3          \* largest enumerated timestamp
MaxL == 3          \* largest enumerated intervalLength
MaxVisits == 3     \* largest enumerated minVisits
MaxGap == 2        \* largest enumerated minPairGap
MaxRuns == 2       \* calls of run on one batch

\* ------------------------------------------------------- test() fixtures
m1 == [intervalLength |-> 45, minVisits |-> 3, nPairs |-> 0, minPairGap |-> 0]
m2 == [intervalLength |-> 45, minVisits |-> 3, nPairs |-> 2, minPairGap |-> 2]

test_runs ==
    { [expMJD |-> <<0, 1, 2, 5, 40>>,       m1 |-> TRUE, m2 |-> TRUE],
      [expMJD |-> <<0, 2, 45>>,             m1 |-> TRUE, m2 |-> TRUE],
      [expMJD |-> <<0, 1, 43, 45>>,         m1 |-> TRUE, m2 |-> TRUE],
      [expMJD |-> <<0, 1, 2, 3, 4, 5, 45>>, m1 |-> TRUE, m2 |-> TRUE],
      [expMJD |-> <<0, 1, 45>>,             m1 |-> TRUE, m2 |-> FALSE],
      [expMJD |-> <<0, 44, 45>>,            m1 |-> TRUE, m2 |-> FALSE] }

\* ------------------------------------------------------------ the inputs
\* Batches the caller may pass: every sequence of at most MaxLen timestamps
\* in 0..MaxT (any order, duplicates, the empty batch) and the test batches.
Batches ==
    UNION { [1..n -> 0..MaxT] : n \in 0..MaxLen }
        \cup { r.expMJD : r \in test_runs }

\* Constructor arguments the caller may pass, valid and invalid, and the two
\* test configurations.
CtorArgs ==
    [intervalLength : 0..MaxL, minVisits : 1..MaxVisits,
     nPairs : (-1)..(MaxVisits + 2), minPairGap : (-1)..MaxGap]
        \cup {m1, m2}

\* An object none of whose attributes has been assigned.
NoAttributes == [a \in {} |-> 0]

VARIABLES
    args,          \* the arguments of the constructor call
    self,          \* the metric's stored configuration attributes
    batch,         \* the batch as the caller built it, before any run sorts it
    dataSliceType, \* the kind of object the batch is: "ndarray" or "dict"
    dataSlice,     \* the caller's batch, which run sorts in place
    pc,            \* where the caller / run stands
    tw,            \* run: the timestamps of the window, t[w]
    i,             \* run: the pair loop's index
    pairStart,     \* run: the pair loop's cursor
    nPairsFound,   \* run: pairs counted so far
    pairs,         \* run: the (left, right) positions of the pairs counted
    returned,      \* the values run has returned to the caller, in order
    raised         \* the exception that ended the last call, or "none"

vars == <<args, self, batch, dataSliceType, dataSlice, pc, tw, i, pairStart, nPairsFound,
          pairs, returned, raised>>

locals == <<tw, i, pairStart, nPairsFound, pairs>>

\* ------------------------------------------------------------- __init__
InitAssertsOffByOne(a) ==
    /\ a.minVisits >= 2
    /\ a.nPairs >= 0
    /\ a.minPairGap >= 0
    /\ a.nPairs <= a.minVisits

\* The four assertions that precede the assignments.
InitAsserts(a) ==
    /\ a.minVisits >= 2
    /\ a.nPairs >= 0
    /\ a.minPairGap >= 0
    /\ a.nPairs <= (a.minVisits + 1)

\* --------------------------------------------------------- run: helpers
\* dataSlice.sort(order=timeCol): ascending, in place.
sortIdentity(s) == s

RECURSIVE sort(_)
sort(s) ==
    IF s = <<>> THEN <<>>
    ELSE LET n == Len(s)
             head == sort(SubSeq(s, 1, n - 1))
             k == Cardinality({j \in DOMAIN head : head[j] <= s[n]})
         IN  SubSeq(head, 1, k) \o <<s[n]>> \o SubSeq(head, k + 1, n - 1)

\* w = (t >= ti0) & (t <= timax): the membership mask of the window.
wFlipped(t, ti0, timax) ==
    [k \in DOMAIN t |-> (t[k] >= ti0) /\ (t[k] >= timax)]

w(t, ti0, timax) ==
    [k \in DOMAIN t |-> (t[k] >= ti0) /\ (t[k] <= timax)]

\* np.sum(w): the number of True entries of a mask.
npsum(mask) == Cardinality({k \in DOMAIN mask : mask[k]})

\* np.sum(w) >= self.minVisits
enoughVisitsStrict(mask, minVisits) == npsum(mask) > minVisits

enoughVisitsFlipped(mask, minVisits) == npsum(mask) <= minVisits

enoughVisits(mask, minVisits) == npsum(mask) >= minVisits

\* t[w]: the entries of t selected by the mask, in order.
RECURSIVE select(_, _)
select(t, mask) ==
    IF Len(t) = 0 THEN <<>>
    ELSE LET n == Len(t)
             head == select(SubSeq(t, 1, n - 1), [k \in 1..(n - 1) |-> mask[k]])
         IN  IF mask[n] THEN Append(head, t[n]) ELSE head

\* (self.nPairs == 0) or (self.minPairGap == 0): the pair check is omitted.
noPairCheck(cfg) == (cfg.nPairs = 0) \/ (cfg.minPairGap = 0)

\* dt = x - x.T with x = np.resize(tw, (n, n)): every row of x is tw, so
\* dt[r, c] = tw[c] - tw[r] (r, c 0-based).
dt(window, r, c) == window[c + 1] - window[r + 1]

\* row = dt[i, pairStart:], as the sequence of its entries.
row(window, r, start) ==
    [k \in 1..(Len(window) - start) |-> dt(window, r, start + k - 1)]

\* wdt = np.where(row >= self.minPairGap)[0]: the 0-based positions in row.
wdtFlipped(rw, minPairGap) == {k - 1 : k \in {j \in DOMAIN rw : rw[j] <= minPairGap}}

wdt(rw, minPairGap) == {k - 1 : k \in {j \in DOMAIN rw : rw[j] >= minPairGap}}

\* wdt[0]: np.where lists the positions in ascending order.
wdt0(positions) == CHOOSE p \in positions : \A q \in positions : p <= q

\* pairStart after an iteration that found no pair: pairStart += 1.
notFoundStartStuck(start) == start

notFoundStart(start) == start + 1

\* pairStart after an iteration that found a pair: pairStart += wdt[0].
foundStart(start, positions) == start + wdt0(positions)

\* What a call hands back: a returned value or a raised exception.
Return(v) == [value |-> v]
Raise(e) == [raised |-> e]

\* ------------------------------------------------ run as a pure function
\* The pair loop from iteration idx on, with the cursor at start and found
\* pairs counted: True as soon as nPairs pairs are counted, False when the
\* range is exhausted (the loop falls through to the return False below it).
RECURSIVE pairLoop(_, _, _, _, _)
pairLoop(window, cfg, idx, start, found) ==
    IF idx >= Len(window) THEN Return(FALSE)
    ELSE IF idx < start THEN pairLoop(window, cfg, idx + 1, start, found)
    ELSE IF start >= Len(window) THEN Raise("IndexError")
    ELSE IF dt(window, idx, start) # 0 THEN Raise("AssertionError")
    ELSE LET positions == wdt(row(window, idx, start), cfg.minPairGap)
         IN  IF positions # {}
             THEN IF found + 1 >= cfg.nPairs THEN Return(TRUE)
                  ELSE pairLoop(window, cfg, idx + 1,
                                foundStart(start, positions), found + 1)
             ELSE pairLoop(window, cfg, idx + 1, notFoundStart(start), found)

\* dataSlice.sort exists: an ndarray has the method, a dict has not.
hasSort(type) == type = "ndarray"

\* run on a batch of the given kind whose time column is s, with
\* configuration cfg.
run(type, s, cfg) ==
    LET t == sort(s)
    IN  IF ~hasSort(type) THEN Raise("AttributeError")
        ELSE IF Len(t) = 0 THEN Raise("NameError")
        ELSE LET ti0 == t[1]
                 timax == ti0 + cfg.intervalLength
                 mask == w(t, ti0, timax)
             IN  IF enoughVisits(mask, cfg.minVisits)
                 THEN IF noPairCheck(cfg) THEN Return(TRUE)
                      ELSE pairLoop(select(t, mask), cfg, 0, 0, 0)
                 ELSE Return(FALSE)

\* ------------------------------------------------------------ the steps
Init ==
    /\ args \in CtorArgs
    /\ batch = <<>>
    /\ dataSliceType = "none"
    /\ dataSlice = <<>>
    /\ self = NoAttributes
    /\ pc = "new"
    /\ tw = <<>>
    /\ i = 0
    /\ pairStart = 0
    /\ nPairsFound = 0
    /\ pairs = <<>>
    /\ returned = <<>>
    /\ raised = "none"

\* __init__ with all four assertions passing: the attributes are stored.
Construct ==
    /\ pc = "new"
    /\ InitAsserts(args)
    /\ self' = [intervalLength |-> args.intervalLength,
                minVisits |-> args.minVisits,
                nPairs |-> args.nPairs,
                minPairGap |-> args.minPairGap]
    /\ pc' = "ready"
    /\ UNCHANGED <<args, batch, dataSliceType, dataSlice, locals, returned, raised>>

\* __init__ with an assertion failing: AssertionError, nothing is stored.
ConstructFails ==
    /\ pc = "new"
    /\ ~InitAsserts(args)
    /\ raised' = "AssertionError"
    /\ pc' = "init_raised"
    /\ UNCHANGED <<args, self, batch, dataSliceType, dataSlice, locals, returned>>

\* The slicer builds the batch it will pass to run: a structured array.
MakeBatch ==
    /\ pc = "ready"
    /\ \E b \in Batches :
          /\ batch' = b
          /\ dataSlice' = b
    /\ dataSliceType' = "ndarray"
    /\ pc' = "batch"
    /\ UNCHANGED <<args, self, locals, returned, raised>>

\* test() takes the next entry of test_runs, a dict whose expMJD entry is the
\* time column, and will pass the dict itself to m1.run or m2.run.
TestBatch ==
    /\ pc = "ready"
    /\ args \in {m1, m2}
    /\ \E r \in test_runs :
          /\ batch' = r.expMJD
          /\ dataSlice' = r.expMJD
    /\ dataSliceType' = "dict"
    /\ pc' = "batch"
    /\ UNCHANGED <<args, self, locals, returned, raised>>

\* The statement `return v` of run.
ReturnValue(v) ==
    /\ returned' = Append(returned, v)
    /\ pc' = "returned"
    /\ UNCHANGED <<args, self, batch, dataSliceType, dataSlice, raised>>

\* An exception leaving run.
RaiseError(e) ==
    /\ raised' = e
    /\ pc' = "run_raised"
    /\ UNCHANGED <<args, self, batch, dataSliceType, dataSlice, returned>>

\* run is called on an object without a sort method: dataSlice.sort raises.
RunSortFails ==
    /\ pc \in {"batch", "returned"}
    /\ Len(returned) < MaxRuns
    /\ ~hasSort(dataSliceType)
    /\ RaiseError("AttributeError")
    /\ UNCHANGED locals

\* run is called: the batch is sorted in place and t is its time column.
RunSort ==
    /\ pc \in {"batch", "returned"}
    /\ Len(returned) < MaxRuns
    /\ hasSort(dataSliceType)
    /\ dataSlice' = sort(dataSlice)
    /\ pc' = "for_ti0"
    /\ tw' = <<>>
    /\ i' = 0
    /\ pairStart' = 0
    /\ nPairsFound' = 0
    /\ pairs' = <<>>
    /\ UNCHANGED <<args, self, batch, dataSliceType, returned, raised>>

\* The mask of the window anchored at the first element of t.
firstMask == w(dataSlice, dataSlice[1], dataSlice[1] + self.intervalLength)

\* `for ti0 in t` over an empty t: the body never runs and `return result`
\* reads a name that was never bound.
RunEmpty ==
    /\ pc = "for_ti0"
    /\ Len(dataSlice) = 0
    /\ RaiseError("NameError")
    /\ UNCHANGED locals

\* First iteration, np.sum(w) < minVisits: the `return False` ending the body.
RunTooFewVisits ==
    /\ pc = "for_ti0"
    /\ Len(dataSlice) > 0
    /\ ~enoughVisits(firstMask, self.minVisits)
    /\ ReturnValue(FALSE)
    /\ UNCHANGED locals

\* First iteration, enough visits and no pair check: return True.
RunNoPairCheck ==
    /\ pc = "for_ti0"
    /\ Len(dataSlice) > 0
    /\ enoughVisits(firstMask, self.minVisits)
    /\ noPairCheck(self)
    /\ ReturnValue(TRUE)
    /\ UNCHANGED locals

\* First iteration, enough visits and a pair check: tw = t[w], the cursor and
\* the count start at 0 and the pair loop begins.
RunPairCheck ==
    /\ pc = "for_ti0"
    /\ Len(dataSlice) > 0
    /\ enoughVisits(firstMask, self.minVisits)
    /\ ~noPairCheck(self)
    /\ tw' = select(dataSlice, firstMask)
    /\ pairStart' = 0
    /\ nPairsFound' = 0
    /\ i' = 0
    /\ pairs' = <<>>
    /\ pc' = "pair_loop"
    /\ UNCHANGED <<args, self, batch, dataSliceType, dataSlice, returned, raised>>

\* An iteration with i < pairStart: continue.
PairSkip ==
    /\ pc = "pair_loop"
    /\ i < Len(tw)
    /\ i < pairStart
    /\ i' = i + 1
    /\ UNCHANGED <<args, self, batch, dataSliceType, dataSlice, pc, tw, pairStart,
                   nPairsFound, pairs, returned, raised>>

\* An iteration that is not skipped: the assertion, the row, and either a
\* counted pair (returning True once nPairs are counted) or a step of the
\* cursor.
PairIter ==
    /\ pc = "pair_loop"
    /\ i < Len(tw)
    /\ ~(i < pairStart)
    /\ IF pairStart >= Len(tw)
       THEN RaiseError("IndexError") /\ UNCHANGED locals
       ELSE IF dt(tw, i, pairStart) # 0
       THEN RaiseError("AssertionError") /\ UNCHANGED locals
       ELSE LET positions == wdt(row(tw, i, pairStart), self.minPairGap)
            IN  IF positions # {}
                THEN /\ nPairsFound' = nPairsFound + 1
                     /\ pairStart' = foundStart(pairStart, positions)
                     /\ pairs' = Append(pairs, <<i, foundStart(pairStart, positions)>>)
                     /\ UNCHANGED tw
                     /\ IF nPairsFound + 1 >= self.nPairs
                        THEN ReturnValue(TRUE) /\ UNCHANGED i
                        ELSE /\ i' = i + 1
                             /\ UNCHANGED <<args, self, batch, dataSliceType, dataSlice, pc,
                                            returned, raised>>
                ELSE /\ pairStart' = notFoundStart(pairStart)
                     /\ i' = i + 1
                     /\ UNCHANGED <<args, self, batch, dataSliceType, dataSlice, pc, tw,
                                    nPairsFound, pairs, returned, raised>>

\* range(len(tw)) is exhausted: the `return False` ending the body.
PairLoopEnd ==
    /\ pc = "pair_loop"
    /\ i >= Len(tw)
    /\ ReturnValue(FALSE)
    /\ UNCHANGED locals

Next ==
    \/ Construct
    \/ ConstructFails
    \/ MakeBatch
    \/ TestBatch
    \/ RunSortFails
    \/ RunSort
    \/ RunEmpty
    \/ RunTooFewVisits
    \/ RunNoPairCheck
    \/ RunPairCheck
    \/ PairSkip
    \/ PairIter
    \/ PairLoopEnd

Spec == Init /\ [][Next]_vars

\* ============================================================ the claims
\* The value of the most recent return.
Last(s) == s[Len(s)]

\* The entries of s in ascending order, by rank (no use of sort).
Ascending(s) ==
    [k \in 1..Len(s) |->
        CHOOSE v \in {s[j] : j \in DOMAIN s} :
            /\ Cardinality({j \in DOMAIN s : s[j] < v}) < k
            /\ k <= Cardinality({j \in DOMAIN s : s[j] <= v})]

\* The closed window [t0, t0 + len] of the batch s, in ascending order.
ClosedWindow(s, t0, len) ==
    Ascending(SelectSeq(s, LAMBDA x : t0 <= x /\ x <= t0 + len))

\* The window anchored at t0 meets the docstring's requirement under cfg.
AnchorSucceeds(s, t0, cfg) ==
    LET W == ClosedWindow(s, t0, cfg.intervalLength)
    IN  /\ Len(W) >= cfg.minVisits
        /\ (cfg.nPairs > 0 /\ cfg.minPairGap > 0)
              => pairLoop(W, cfg, 0, 0, 0) = Return(TRUE)

\* The earliest timestamp of a non-empty batch.
Earliest(s) == CHOOSE v \in {s[j] : j \in DOMAIN s} : \A j \in DOMAIN s : v <= s[j]

PairCheckOn(cfg) == cfg.nPairs > 0 /\ cfg.minPairGap > 0

\* C1 (as claimed): on a non-empty batch run returns true iff some timestamp
\* of the batch, taken as the anchor, has a closed window with at least
\* minVisits timestamps that passes the pair check; false only when no anchor
\* succeeds.
C1_AnyAnchor ==
    (pc = "returned" /\ Len(batch) > 0)
        => (Last(returned) = (\E k \in DOMAIN batch : AnchorSucceeds(batch, batch[k], self)))

\* C2 (as claimed): with m1 = (45, 3, 0, 0) and m2 = (45, 3, 2, 2) run
\* returns, for each of the six test batches, the expected value of the
\* table, without raising; a timestamp at exactly tmin + intervalLength counts
\* toward minVisits, and a second counted pair starts at or after the first
\* pair's right element.
C2_TestTable ==
    /\ \A r \in test_runs :
          (batch = r.expMJD /\ args \in {m1, m2})
              => /\ pc # "run_raised"
                 /\ pc = "returned"
                       => \A k \in DOMAIN returned :
                             returned[k] = (IF args = m1 THEN r.m1 ELSE r.m2)
    /\ (/\ pc = "returned"
        /\ Len(batch) > 0
        /\ ~PairCheckOn(self)
        /\ \E k \in DOMAIN batch : batch[k] = Earliest(batch) + self.intervalLength
        /\ Cardinality({k \in DOMAIN batch :
                           batch[k] <= Earliest(batch) + self.intervalLength})
              >= self.minVisits)
          => Last(returned) = TRUE
    /\ (pc = "returned" /\ Len(pairs) >= 2) => pairs[2][1] >= pairs[1][2]

\* The table's values are what run returns when the same timestamps arrive
\* in a structured array.
TestTableOnArray ==
    \A r \in test_runs :
        (batch = r.expMJD /\ args \in {m1, m2} /\ dataSliceType = "ndarray")
            => /\ pc # "run_raised"
               /\ pc = "returned"
                     => \A k \in DOMAIN returned :
                           returned[k] = (IF args = m1 THEN r.m1 ELSE r.m2)

\* C3: construction raises, with no attribute stored, exactly when
\* minVisits < 2 or nPairs < 0 or minPairGap < 0 or nPairs > minVisits + 1;
\* otherwise it succeeds and stores the four fields exactly as given.
C3_Rejected(a) ==
    \/ a.minVisits < 2
    \/ a.nPairs < 0
    \/ a.minPairGap < 0
    \/ a.nPairs > a.minVisits + 1

C3_Construction ==
    /\ pc = "init_raised"
          => C3_Rejected(args) /\ DOMAIN self = {} /\ raised = "AssertionError"
    /\ pc \notin {"new", "init_raised"}
          => /\ ~C3_Rejected(args)
             /\ DOMAIN self = {"intervalLength", "minVisits", "nPairs", "minPairGap"}
             /\ self.intervalLength = args.intervalLength
             /\ self.minVisits = args.minVisits
             /\ self.nPairs = args.nPairs
             /\ self.minPairGap = args.minPairGap

C3_Witness ==
    /\ pc = "init_raised"
    /\ args.minVisits >= 2
    /\ args.nPairs = args.minVisits + 2
    /\ args.minPairGap >= 0
    /\ DOMAIN self = {}

\* C4 (as claimed): run on an empty batch does not raise and returns false.
C4_EmptyReturnsFalse ==
    (Len(batch) = 0 /\ pc \in {"returned", "run_raised"})
        => (pc = "returned" /\ Last(returned) = FALSE)

\* C5: on a non-empty batch, if run returns true with intervalLength L1 then
\* it returns true with every L2 >= L1, the other fields held fixed.
C5_MonotoneInterval ==
    (pc = "returned" /\ Len(batch) > 0 /\ Last(returned) = TRUE)
        => \A L2 \in self.intervalLength..(self.intervalLength + MaxL + 1) :
              run(dataSliceType, batch, [self EXCEPT !.intervalLength = L2]) = Return(TRUE)

C5_Witness ==
    /\ pc = "returned"
    /\ Len(batch) > 0
    /\ Last(returned) = TRUE
    /\ PairCheckOn(self)
    /\ self.intervalLength > 0
    /\ run(dataSliceType, batch, [self EXCEPT !.intervalLength = self.intervalLength - 1]) = Return(FALSE)

\* C6: on a non-empty batch, if run returns false with minVisits m1 then it
\* returns false with every m2 >= m1, the other fields held fixed.
C6_MonotoneVisits ==
    (pc = "returned" /\ Len(batch) > 0 /\ Last(returned) = FALSE)
        => \A mv \in self.minVisits..(self.minVisits + MaxVisits + 1) :
              run(dataSliceType, batch, [self EXCEPT !.minVisits = mv]) = Return(FALSE)

C6_Witness ==
    /\ pc = "returned"
    /\ Len(batch) > 0
    /\ Last(returned) = FALSE
    /\ self.minVisits > 2
    /\ self.nPairs <= self.minVisits
    /\ run(dataSliceType, batch, [self EXCEPT !.minVisits = self.minVisits - 1]) = Return(TRUE)

\* C7: on a non-empty batch run returns exactly the pass/fail of the window
\* anchored at the earliest timestamp: true iff [tmin, tmin + intervalLength]
\* holds at least minVisits timestamps and the pair check is off or the greedy
\* pair count over that window reaches nPairs; on a non-empty structured
\* array run never raises.
C7_FirstAnchorOnly ==
    Len(batch) > 0
        => /\ dataSliceType = "ndarray" => pc # "run_raised"
           /\ pc = "returned"
                 => Last(returned) = AnchorSucceeds(batch, Earliest(batch), self)

\* A later anchor would have succeeded, the earliest one failed, and run
\* returned false.
C7_Witness ==
    /\ pc = "returned"
    /\ Len(batch) > 0
    /\ Last(returned) = FALSE
    /\ \E k \in DOMAIN batch : AnchorSucceeds(batch, batch[k], self)

\* Every counted pair has its left position before its right position and a
\* gap of at least minPairGap.
PairsWellFormed ==
    \A p \in DOMAIN pairs :
        /\ pairs[p][1] < pairs[p][2]
        /\ pairs[p][2] < Len(tw)
        /\ tw[pairs[p][2] + 1] - tw[pairs[p][1] + 1] >= self.minPairGap

\* No position is the left element of two counted pairs, nor the right
\* element of two.
NoSharedSide ==
    \A p, q \in DOMAIN pairs :
        p # q => pairs[p][1] # pairs[q][1] /\ pairs[p][2] # pairs[q][2]

\* No position is the right element of one counted pair and the left element
\* of another.
NoSharedAcross ==
    \A p, q \in DOMAIN pairs : pairs[p][2] # pairs[q][1]

\* C8 (as claimed): when run returns true with the pair check on, the nPairs
\* counted pairs are well formed and no position belongs to two of them.
C8_PairsDisjoint ==
    (pc = "returned" /\ Last(returned) = TRUE /\ PairCheckOn(self))
        => /\ Len(pairs) = self.nPairs
           /\ PairsWellFormed
           /\ NoSharedSide
           /\ NoSharedAcross

\* C8 (amended): when run returns true with the pair check on, the nPairs
\* counted pairs are well formed, and no position is the left element of two
\* pairs or the right element of two pairs.
C8_PairsDistinctSides ==
    (pc = "returned" /\ Last(returned) = TRUE /\ PairCheckOn(self))
        => /\ Len(pairs) = self.nPairs
           /\ PairsWellFormed
           /\ NoSharedSide

C8_Witness ==
    /\ pc = "returned"
    /\ Last(returned) = TRUE
    /\ PairCheckOn(self)
    /\ Len(pairs) >= 2
    /\ pairs[1][2] = pairs[2][1]
    /\ Len(tw) > Len(pairs) + 1

\* A non-skipped iteration stands on the diagonal, inside the window.
C9_OnDiagonal ==
    (pc = "pair_loop" /\ i < Len(tw) /\ ~(i < pairStart))
        => /\ i = pairStart
           /\ pairStart < Len(tw)
           /\ dt(tw, i, pairStart) = 0
           /\ Len(row(tw, i, pairStart)) > 0

\* C9: in the pair loop every iteration that is not skipped has
\* i == pairStart < len(tw), so the assertion holds and the row is not empty;
\* run raises neither AssertionError nor IndexError; pairStart never
\* decreases; and the loop makes at most len(tw) iterations.
C9_PairLoop ==
    /\ [](C9_OnDiagonal)
    /\ [](pc = "run_raised" => raised \notin {"AssertionError", "IndexError"})
    /\ [](pc = "pair_loop" => (i <= Len(tw) /\ self.minPairGap > 0))
    /\ [][(pc = "pair_loop" /\ pc' \in {"pair_loop", "returned"})
             => (pairStart' >= pairStart /\ i' \in {i, i + 1})]_vars

\* The loop stands at a non-skipped iteration past the first, in a window
\* with a duplicate timestamp.
C9_Witness ==
    /\ pc = "pair_loop"
    /\ i < Len(tw)
    /\ i = pairStart
    /\ i > 1
    /\ nPairsFound > 0
    /\ Len(tw) # Cardinality({tw[k] : k \in DOMAIN tw})

\* C10: after run returns, the batch holds the same multiset of timestamps
\* as before, in ascending order, the four configuration fields are as
\* constructed, and every later run on the batch returns the same value.
C10_OnlySorts ==
    pc = "returned"
        => /\ dataSlice = Ascending(batch)
           /\ \A k \in 1..(Len(dataSlice) - 1) : dataSlice[k] <= dataSlice[k + 1]
           /\ self = args
           /\ \A k \in DOMAIN returned : returned[k] = returned[1]

C10_Witness ==
    /\ pc = "returned"
    /\ Len(returned) = 2
    /\ dataSlice # batch
    /\ Len(batch) # Cardinality({batch[k] : k \in DOMAIN batch})

====
